---- MODULE Spec2Model ----
(***************************************************************************)
(* Model of GenericSharedMemoryModel<T> (GenericSharedMemoryModel.hpp).    *)
(*                                                                         *)
(* Several instances of the class are bound to one segment name.  Threads  *)
(* of the process call connect, disconnect, is_connected, get_data and     *)
(* write_data on them, or destroy them.  Every call takes the instance's   *)
(* m_member_lock and runs its body one OS call, or one word of the copy,   *)
(* at a time, so that calls on different instances interleave at that      *)
(* grain.  Taking the lock is one step with the first OS call or word of   *)
(* the body, and the return is one step with the last: the steps between   *)
(* touch only members that the lock protects.  A call that finds the       *)
(* mutex taken waits at "lock".                                            *)
(*                                                                         *)
(* Both platform branches of the header are modelled; `platform` fixes the *)
(* branch of a behaviour.  `workload` fixes what a behaviour exercises:    *)
(* under "faults" the OS may refuse any step of connect and one thread     *)
(* makes all the calls, on both instances; under "shared" the threads call *)
(* one instance concurrently; under "pair" each thread calls an instance   *)
(* of its own, as two processes attached to the name would; under         *)
(* "direct" one thread also reads and writes through the public pointer    *)
(* `data`, past the methods.  The OS refuses nothing under "shared",       *)
(* "pair" and "direct".                                                    *)
(***************************************************************************)
EXTENDS Integers, Sequences, FiniteSets, TLC

\* ------------------------------------------------------------------ bounds
MaxHandle == 2          \* size of the process's handle table
MaxAddr   == 2          \* number of addresses a mapping can be placed at
SizeofT   == 2          \* sizeof(T), in separately written words

Threads    == {"t1", "t2"}
Instances  == {"A", "B"}
Platforms  == {"posix", "windows"}
Workloads  == {"faults", "shared", "pair", "direct"}

\* ----------------------------------------------------------- value domains
Word    == {0, 1}                                 \* the values of one word of T
Zero    == [k \in 1 .. SizeofT |-> 0]             \* a zero-filled T
TValues == [1 .. SizeofT -> Word]                 \* every value of T
NewData == {[k \in 1 .. SizeofT |-> w] : w \in Word}   \* arguments of write_data

Handles == 1 .. MaxHandle
Addr    == 1 .. MaxAddr

NULL          == 0      \* a null pointer (the Windows mapping failure)
MAP_FAILED    == -1     \* (void *) -1, the POSIX mapping failure
Wild          == -2     \* an indeterminate pointer into other process memory
InvalidHandle == 0      \* shm_open() < 0, CreateFileMappingA() == NULL

Uninitialised == {NULL, Wild}       \* values of a T* that was never assigned

VARIABLES
    platform,               \* which #ifdef branch was compiled
    workload,               \* what the behaviour exercises
    alive,                  \* alive[i]: instance i is constructed
    m_is_connected,         \* the private flag of each instance
    data,                   \* the public T* of each instance
    m_file_mapping_handle,  \* the private handle of each instance
    m_member_lock,          \* the thread holding each instance's mutex
    seg_exists,             \* the named backing object exists
    seg_size,               \* its size in words
    seg_mem,                \* its contents
    open_handles,           \* the open entries of the handle table
    mapped,                 \* the addresses at which the object is mapped
    crashed,                \* the process took a fatal signal
    pc, op, this,           \* each thread's position, call and instance
    new_data,               \* the argument of the thread's write_data
    buf,                    \* the words the thread's copy has moved so far
    ret,                    \* the result of the thread's last call
    from,                   \* the position that call returned from
    last_written,           \* value of the last completed write_data
    overlap,                \* the thread's copy overlapped another copy
    env_failed              \* the OS has refused a step of some connect

conf_vars == <<platform, workload>>
inst_vars == <<alive, m_is_connected, data, m_file_mapping_handle, m_member_lock>>
os_vars   == <<seg_exists, seg_size, seg_mem, open_handles, mapped>>
thr_vars  == <<pc, op, this, new_data, buf, ret, from>>
hist_vars == <<last_written, overlap, env_failed>>
vars == <<conf_vars, inst_vars, os_vars, crashed, thr_vars, hist_vars>>

\* The instance an idle thread's `this` names (it names none).
AnyInstance == CHOOSE i \in Instances : TRUE

Ops == {"connect", "disconnect", "is_connected", "get_data", "write_data", "destroy"}

\* What a caller does with the public member: v = *x.data and *x.data = v.
DirectOps == {"read", "store"}

\* -------------------------------------------------------------- OS helpers
\* The OS may refuse a step that it could have carried out.
OSMayFail == workload = "faults"

\* The instances each thread calls.
Uses ==
    [t \in Threads |->
        CASE workload \in {"faults", "direct"} ->
                 IF t = "t1" THEN Instances ELSE {}
          [] workload = "shared" -> {"A"}
          [] workload = "pair"   -> IF t = "t1" THEN {"B"} ELSE {"A"}]
Outcomes  == IF OSMayFail THEN BOOLEAN ELSE {TRUE}

FreeHandles == Handles \ open_handles
FreeAddrs   == Addr \ mapped
\* The OS gives out the lowest free handle, and maps at the lowest free address.
Lowest(S)   == CHOOSE x \in S : \A y \in S : x <= y

\* The Windows object lives only while a handle or a view refers to it; the
\* POSIX object stays until it is unlinked, which this class never does.
ObjectGone(hs, ms) == platform = "windows" /\ hs = {} /\ ms = {}

\* What the segment is after a handle or a view was released.
SegAfter(hs, ms) ==
    IF ObjectGone(hs, ms)
    THEN [exists |-> FALSE, size |-> 0, mem |-> Zero, written |-> <<>>]
    ELSE [exists |-> seg_exists, size |-> seg_size, mem |-> seg_mem,
          written |-> last_written]

SetSeg(s) ==
    /\ seg_exists' = s.exists
    /\ seg_size' = s.size
    /\ seg_mem' = s.mem
    /\ last_written' = s.written

\* A pointer can be dereferenced for the whole of T.
Mapped(p) == p \in mapped /\ seg_size = SizeofT

\* The process runs, and no caller is looking at the result of a call that
\* just returned (a caller takes its result before anything else happens:
\* that step is local to the thread).
Running == ~crashed /\ \A u \in Threads : pc[u] # "done"

\* ----------------------------------------------------------- construction
\* Faulty variant of Constructed: a constructor that leaves the flag unset.
ConstructedUnset == BOOLEAN

\* m_is_connected = false; the values the flag has after the constructor.
Constructed == {FALSE}

\* GenericSharedMemoryModel(name, log_warnings): m_is_connected = false; data
\* and m_file_mapping_handle are not initialised.
Constructor(i) ==
    /\ Running
    /\ ~alive[i]
    /\ alive' = [alive EXCEPT ![i] = TRUE]
    /\ \E b \in Constructed : m_is_connected' = [m_is_connected EXCEPT ![i] = b]
    /\ \E p \in Uninitialised : data' = [data EXCEPT ![i] = p]
    /\ UNCHANGED <<conf_vars, m_file_mapping_handle, m_member_lock, os_vars,
                   crashed, thr_vars, hist_vars>>

Init ==
    /\ platform \in Platforms
    /\ workload \in Workloads
    /\ alive = [i \in Instances |-> TRUE]
    /\ m_is_connected \in [Instances -> Constructed]
    /\ data \in [Instances -> Uninitialised]
    /\ m_file_mapping_handle = [i \in Instances |-> InvalidHandle]
    /\ m_member_lock = [i \in Instances |-> "none"]
    /\ seg_exists = FALSE
    /\ seg_size = 0
    /\ seg_mem = Zero
    /\ open_handles = {}
    /\ mapped = {}
    /\ crashed = FALSE
    /\ pc = [t \in Threads |-> "idle"]
    /\ op = [t \in Threads |-> "none"]
    /\ this = [t \in Threads |-> AnyInstance]
    /\ new_data = [t \in Threads |-> <<>>]
    /\ buf = [t \in Threads |-> <<>>]
    /\ ret = [t \in Threads |-> "none"]
    /\ from = [t \in Threads |-> "idle"]
    /\ last_written = <<>>
    /\ overlap = [t \in Threads |-> FALSE]
    /\ env_failed = FALSE

\* ------------------------------------------------------- calling a method
\* The thread is inside a call on i: it has called and not yet returned.
InCall(t, i) == pc[t] \notin {"idle", "done"} /\ this[t] = i

\* An idle thread may call method o of a live instance that it uses.  The
\* instances outlive concurrent threads: only under "faults" are they
\* destroyed.  The destructor runs only when no other call on the instance
\* is in progress, and no call starts on an instance that is being
\* destroyed.
MayCall(t, i, o) ==
    /\ pc[t] = "idle"
    /\ i \in Uses[t]
    /\ workload = "faults" \/ o # "destroy"
    /\ workload = "direct" \/ o \notin DirectOps
    /\ alive[i]
    /\ \A u \in Threads : ~(InCall(u, i) /\ op[u] = "destroy")
    /\ o = "destroy" => \A u \in Threads : ~InCall(u, i)

\* Faulty variant of Unlocked: the methods without their member_guard.
NeverLocked(i) == TRUE

\* Faulty variant of Unlocked: one mutex for all the instances.
AllUnlocked(i) == \A j \in Instances : m_member_lock[j] = "none"

\* std::scoped_lock<std::mutex> member_guard(m_member_lock) can take the
\* mutex of instance i.
Unlocked(i) == m_member_lock[i] = "none"

\* A thread calls a method of an instance whose mutex is taken, and waits.
Call(t, i, o) ==
    /\ Running
    /\ MayCall(t, i, o)
    /\ ~Unlocked(i)
    /\ pc' = [pc EXCEPT ![t] = "lock"]
    /\ op' = [op EXCEPT ![t] = o]
    /\ this' = [this EXCEPT ![t] = i]
    /\ UNCHANGED <<conf_vars, inst_vars, os_vars, crashed, new_data, buf, ret,
                   from, hist_vars>>

\* Thread t takes the mutex of i for method o, in the call it makes now or
\* in the one it waits in.
Enters(t, i, o) ==
    /\ Running
    /\ Unlocked(i)
    /\ \/ MayCall(t, i, o)
       \/ pc[t] = "lock" /\ this[t] = i /\ op[t] = o
    /\ op' = [op EXCEPT ![t] = o]
    /\ this' = [this EXCEPT ![t] = i]

\* Thread t is at position p of its call on i.
At(t, i, p) == Running /\ pc[t] = p /\ this[t] = i

\* The step leaves the thread inside the call, at position p.
Goes(t, i, p) ==
    /\ pc' = [pc EXCEPT ![t] = p]
    /\ m_member_lock' = [m_member_lock EXCEPT ![i] = t]
    /\ UNCHANGED <<ret, from>>

\* Faulty variant: a return path that leaves the member mutex locked.
ReturnHoldingLock(t, i, r) ==
    /\ pc' = [pc EXCEPT ![t] = "done"]
    /\ ret' = [ret EXCEPT ![t] = r]
    /\ from' = [from EXCEPT ![t] = pc[t]]
    /\ m_member_lock' = [m_member_lock EXCEPT ![i] = t]

\* The return of a call: the result is stored and member_guard unlocks.
Return(t, i, r) ==
    /\ pc' = [pc EXCEPT ![t] = "done"]
    /\ ret' = [ret EXCEPT ![t] = r]
    /\ from' = [from EXCEPT ![t] = pc[t]]
    /\ m_member_lock' = [m_member_lock EXCEPT ![i] = "none"]

\* The caller takes the result of the call that returned.
Consume(t) ==
    /\ ~crashed
    /\ pc[t] = "done"
    /\ pc' = [pc EXCEPT ![t] = "idle"]
    /\ op' = [op EXCEPT ![t] = "none"]
    /\ this' = [this EXCEPT ![t] = AnyInstance]
    /\ buf' = [buf EXCEPT ![t] = <<>>]
    /\ ret' = [ret EXCEPT ![t] = "none"]
    /\ from' = [from EXCEPT ![t] = "idle"]
    /\ overlap' = [overlap EXCEPT ![t] = FALSE]
    /\ UNCHANGED <<conf_vars, inst_vars, os_vars, crashed, new_data, last_written,
                   env_failed>>

Bool(b) == IF b THEN "true" ELSE "false"

\* ---------------------------------------------------------------- connect
\* The results shm_open / CreateFileMappingA can give: the lowest free
\* handle, or the invalid handle (forced when the table is full).
OpenResults ==
    IF FreeHandles = {} THEN {InvalidHandle}
    ELSE {Lowest(FreeHandles)} \cup (IF OSMayFail THEN {InvalidHandle} ELSE {})

\* Faulty variant of HandleInvalid: the POSIX test applied to a null handle.
HandleNegative(h) == h < 0

\* if (m_file_mapping_handle < 0) / if (m_file_mapping_handle == NULL)
HandleInvalid(h) == h = InvalidHandle

\* Faulty variant of AlreadyConnected: connect without its if(!m_is_connected).
NeverConnected(i) == FALSE

\* if(!m_is_connected): connect has nothing to do.
AlreadyConnected(i) == m_is_connected[i]

\* Faulty variant of ConnectResult: the flag as it was when the call began.
ConnectResultStale(i) == Bool(m_is_connected[i])

\* return m_is_connected; the flag as the call leaves it.
ConnectResult(i) == Bool(m_is_connected'[i])

\* if(!m_is_connected) { m_file_mapping_handle = shm_open(...) /
\* CreateFileMappingA(...); if invalid { m_is_connected = false; return
\* false; } ... } return m_is_connected;
Connect(t, i) ==
    /\ Enters(t, i, "connect")
    /\ IF AlreadyConnected(i)
       THEN /\ UNCHANGED <<m_is_connected, m_file_mapping_handle, os_vars, env_failed>>
            /\ Return(t, i, ConnectResult(i))
       ELSE \E h \in OpenResults :
            /\ m_file_mapping_handle' = [m_file_mapping_handle EXCEPT ![i] = h]
            /\ IF HandleInvalid(h)
               THEN /\ m_is_connected' = [m_is_connected EXCEPT ![i] = FALSE]
                    /\ Return(t, i, "false")
                    /\ env_failed' = (env_failed \/ FreeHandles # {})
                    /\ UNCHANGED os_vars
               ELSE /\ open_handles' = open_handles \cup {h}
                    /\ seg_exists' = TRUE
                    /\ seg_size' = IF seg_exists THEN seg_size
                                   ELSE IF platform = "windows" THEN SizeofT ELSE 0
                    /\ seg_mem' = IF seg_exists THEN seg_mem ELSE Zero
                    /\ Goes(t, i, IF platform = "windows" THEN "c_map" ELSE "c_fstat")
                    /\ UNCHANGED <<m_is_connected, mapped, env_failed>>
    /\ UNCHANGED <<conf_vars, alive, data, crashed, new_data, buf, last_written,
                   overlap>>

\* Faulty variant of NeedsSizing: the object is never sized.
NeverSizes(ok) == FALSE

\* fstat(...) != -1 && mapping_stat.st_size == 0, ok being fstat's success.
NeedsSizing(ok) == ok /\ seg_size = 0

\* fstat(m_file_mapping_handle, &mapping_stat) != -1 && mapping_stat.st_size == 0
ConnectFstat(t, i) ==
    /\ At(t, i, "c_fstat")
    /\ \E ok \in Outcomes :
        /\ Goes(t, i, IF NeedsSizing(ok) THEN "c_trunc" ELSE "c_map")
        /\ env_failed' = (env_failed \/ ~ok)
    /\ UNCHANGED <<conf_vars, alive, m_is_connected, data, m_file_mapping_handle,
                   os_vars, crashed, op, this, new_data, buf, last_written, overlap>>

\* Faulty variant of Truncated: a resize that discards the contents.
TruncatedToZero(mem) == Zero

\* The contents ftruncate(h, sizeof (T)) leaves: those the object had when
\* it already has that size, zeroes when it grows from nothing.
Truncated(mem) == IF seg_size = SizeofT THEN mem ELSE Zero

\* if (ftruncate(m_file_mapping_handle, sizeof (T)) != 0) { ... return false; }
ConnectTruncate(t, i) ==
    /\ At(t, i, "c_trunc")
    /\ \E ok \in Outcomes :
        IF ok
        THEN /\ seg_size' = SizeofT
             /\ seg_mem' = Truncated(seg_mem)
             /\ Goes(t, i, "c_map")
             /\ UNCHANGED <<m_is_connected, env_failed>>
        ELSE /\ m_is_connected' = [m_is_connected EXCEPT ![i] = FALSE]
             /\ Return(t, i, "false")
             /\ env_failed' = TRUE
             /\ UNCHANGED <<seg_size, seg_mem>>
    /\ UNCHANGED <<conf_vars, alive, data, m_file_mapping_handle, seg_exists,
                   open_handles, mapped, crashed, op, this, new_data, buf,
                   last_written, overlap>>

\* The value mmap / MapViewOfFile gives when it fails.
MapFailure == IF platform = "windows" THEN NULL ELSE MAP_FAILED

\* The results mmap / MapViewOfFile can give.
MapResults ==
    IF FreeAddrs = {} THEN {MapFailure}
    ELSE {Lowest(FreeAddrs)} \cup (IF OSMayFail THEN {MapFailure} ELSE {})

\* if (data == MAP_FAILED) / if (data == NULL)
MappingFailed(p) == p = MapFailure

\* Faulty variant of Closed: the handle is never closed.
NotClosed(hs, h) == hs

\* close(h) / CloseHandle(h) on the handle table hs.
Closed(hs, h) == hs \ {h}

\* What the failure branch of the mapping does with the handle: the Windows
\* branch calls CloseHandle, the POSIX branch only returns.
HandlesAfterMapFailureOn(plat, i) ==
    IF plat = "windows"
    THEN Closed(open_handles, m_file_mapping_handle[i])
    ELSE open_handles

\* The handles left open by the failure branch of the platform of this build.
HandlesAfterMapFailure(i) == HandlesAfterMapFailureOn(platform, i)

\* data = (T *) mmap(...) / MapViewOfFile(...); if failed { m_is_connected =
\* false; return false; } m_is_connected = true; return m_is_connected;
ConnectMap(t, i) ==
    /\ At(t, i, "c_map")
    /\ \E p \in MapResults :
        /\ data' = [data EXCEPT ![i] = p]
        /\ LET ms == IF p \in Addr THEN mapped \cup {p} ELSE mapped IN
           IF MappingFailed(p)
           THEN LET hs == HandlesAfterMapFailure(i) IN
                /\ open_handles' = hs
                /\ mapped' = ms
                /\ SetSeg(SegAfter(hs, ms))
                /\ m_is_connected' = [m_is_connected EXCEPT ![i] = FALSE]
                /\ Return(t, i, "false")
                /\ env_failed' = (env_failed \/ FreeAddrs # {})
           ELSE /\ mapped' = ms
                /\ m_is_connected' = [m_is_connected EXCEPT ![i] = TRUE]
                /\ Return(t, i, ConnectResult(i))
                /\ UNCHANGED <<seg_exists, seg_size, seg_mem, open_handles,
                               last_written, env_failed>>
    /\ UNCHANGED <<conf_vars, alive, m_file_mapping_handle, crashed, op, this,
                   new_data, buf, overlap>>

\* ------------------------------------------------------------- disconnect
\* The end of ~GenericSharedMemoryModel: the object and its members are gone.
Destroyed(i) ==
    /\ alive' = [alive EXCEPT ![i] = FALSE]
    /\ data' = [data EXCEPT ![i] = NULL]
    /\ m_file_mapping_handle' = [m_file_mapping_handle EXCEPT ![i] = InvalidHandle]

AfterReturn(o, i) ==
    IF o = "destroy" THEN Destroyed(i)
    ELSE UNCHANGED <<alive, data, m_file_mapping_handle>>

\* Faulty variant of MustRelease: disconnect without its if(m_is_connected).
AlwaysRelease(i) == TRUE

\* if(m_is_connected): disconnect has resources to release.
MustRelease(i) == m_is_connected[i]

\* if(m_is_connected){ munmap(data, sizeof (T)) / UnmapViewOfFile(data); ... }
\* return true;
Disconnect(t, i, o) ==
    /\ o \in {"disconnect", "destroy"}
    /\ Enters(t, i, o)
    /\ IF MustRelease(i)
       THEN /\ mapped' = mapped \ {data[i]}
            /\ Goes(t, i, "d_close")
            /\ UNCHANGED <<alive, data, m_file_mapping_handle>>
       ELSE /\ Return(t, i, "true")
            /\ AfterReturn(o, i)
            /\ UNCHANGED mapped
    /\ UNCHANGED <<conf_vars, m_is_connected, seg_exists, seg_size, seg_mem,
                   open_handles, crashed, new_data, buf, hist_vars>>

\* close(m_file_mapping_handle) / CloseHandle(m_file_mapping_handle);
\* m_is_connected = false; return true;
DisconnectClose(t, i) ==
    LET hs == Closed(open_handles, m_file_mapping_handle[i]) IN
    /\ At(t, i, "d_close")
    /\ open_handles' = hs
    /\ m_is_connected' = [m_is_connected EXCEPT ![i] = FALSE]
    /\ SetSeg(SegAfter(hs, mapped))
    /\ Return(t, i, "true")
    /\ AfterReturn(op[t], i)
    /\ UNCHANGED <<conf_vars, mapped, crashed, op, this, new_data, buf, overlap,
                   env_failed>>

\* ----------------------------------------------------------- is_connected
\* return m_is_connected;
IsConnected(t, i) ==
    /\ Enters(t, i, "is_connected")
    /\ Return(t, i, Bool(m_is_connected[i]))
    /\ UNCHANGED <<conf_vars, alive, m_is_connected, data, m_file_mapping_handle,
                   os_vars, crashed, new_data, buf, hist_vars>>

\* ------------------------------------------------- get_data and write_data
\* The positions in which a call is between two words of its copy.
Copying == {"g_copy", "w_copy", "r_copy", "s_copy"}

\* The positions in which a write is between two words of its copy.
Storing == {"w_copy", "s_copy"}

\* Faulty variant of Load: the load reads a private zero-filled copy of T
\* instead of the mapping.
LoadPrivateCopy(p, k) ==
    IF Mapped(p) THEN {0}
    ELSE IF p \in mapped \cup {NULL, MAP_FAILED} THEN {}
    ELSE Word

\* The words one load through p can give: the word of the segment when p
\* is mapped; none when p is null or MAP_FAILED, or mapped beyond the end of
\* the object; any word when p is indeterminate or dangling and the address
\* belongs to something else.
Load(p, k) ==
    IF Mapped(p) THEN {seg_mem[k]}
    ELSE IF p \in mapped \cup {NULL, MAP_FAILED} THEN {}
    ELSE Word

\* Faulty variant of Faults: no access ever raises a signal.
NeverFaults(p) == FALSE

\* A load or a store through p can raise a fatal signal.
Faults(p) == ~Mapped(p)

\* The fatal signal ends the process in the middle of thread t's call.
Fault(t) ==
    /\ crashed' = TRUE
    /\ pc' = [pc EXCEPT ![t] = "fault"]
    /\ UNCHANGED <<conf_vars, inst_vars, os_vars, new_data, buf, ret, from,
                   hist_vars>>

\* The history of overlapping copies after thread t moves a word: a copy
\* that begins is marked when a write_data is between two words, and a
\* write_data that begins marks every copy that is between two words.
Overlaps(t, o) ==
    LET begins == pc[t] \notin Copying IN
    [u \in Threads |->
        IF u = t
        THEN IF begins THEN \E w \in Threads \ {t} : pc[w] \in Storing
             ELSE overlap[t]
        ELSE overlap[u] \/ (begins /\ o \in {"write_data", "store"} /\ pc[u] \in Copying)]

\* The copy of thread t in its call o on instance i is at its first word
\* (the call takes the mutex) or at a later one.
Copies(t, i, o, p) ==
    \/ Enters(t, i, o)
    \/ At(t, i, p) /\ UNCHANGED <<op, this>>

\* return *data;
GetData(t, i) ==
    LET k == Len(buf[t]) + 1 IN
    /\ Copies(t, i, "get_data", "g_copy")
    /\ \/ Faults(data[i]) /\ Fault(t)
       \/ /\ \E w \in Load(data[i], k) : buf' = [buf EXCEPT ![t] = Append(@, w)]
          /\ IF k = SizeofT THEN Return(t, i, "value") ELSE Goes(t, i, "g_copy")
          /\ overlap' = Overlaps(t, "get_data")
          /\ UNCHANGED <<conf_vars, alive, m_is_connected, data,
                         m_file_mapping_handle, os_vars, crashed, new_data,
                         last_written, env_failed>>

\* Faulty variant of Store: a copy that never advances past the first word.
StoreAtFirstWord(p, k, v) ==
    IF Mapped(p) THEN [seg_mem EXCEPT ![1] = v[k]] ELSE seg_mem

\* What the segment holds after word k of v is stored through p.
Store(p, k, v) == IF Mapped(p) THEN [seg_mem EXCEPT ![k] = v[k]] ELSE seg_mem

\* The value of the last completed write_data after thread t stored a word
\* of v through instance i: v when the call is complete and ran alone on a
\* connected instance; unknown when it overlapped another write_data, or
\* reached the segment through the pointer of a disconnected instance.
Written(t, i, v, complete) ==
    IF m_is_connected[i]
    THEN IF ~complete THEN last_written
         ELSE IF overlap[t] THEN <<>> ELSE v
    ELSE IF Mapped(data[i]) THEN <<>> ELSE last_written

\* memcpy(data, &new_data, sizeof(T));
WriteData(t, i, v) ==
    LET k == Len(buf[t]) + 1 IN
    /\ Copies(t, i, "write_data", "w_copy")
    /\ pc[t] = "w_copy" => v = new_data[t]
    /\ \/ Faults(data[i]) /\ Fault(t)
       \/ /\ Load(data[i], k) # {}
          /\ seg_mem' = Store(data[i], k, v)
          /\ last_written' = Written(t, i, v, k = SizeofT)
          /\ IF k = SizeofT
             THEN /\ Return(t, i, "void")
                  /\ buf' = [buf EXCEPT ![t] = <<>>]
                  /\ new_data' = [new_data EXCEPT ![t] = <<>>]
             ELSE /\ Goes(t, i, "w_copy")
                  /\ buf' = [buf EXCEPT ![t] = Append(@, v[k])]
                  /\ new_data' = [new_data EXCEPT ![t] = v]
          /\ overlap' = Overlaps(t, "write_data")
          /\ UNCHANGED <<conf_vars, alive, m_is_connected, data,
                         m_file_mapping_handle, seg_exists, seg_size,
                         open_handles, mapped, crashed, env_failed>>

\* ------------------------------------------- access through the pointer
\* The caller's copy through x.data is at its first word or at a later
\* one; no mutex is taken.
Derefs(t, i, o, p) ==
    \/ /\ Running
       /\ MayCall(t, i, o)
       /\ op' = [op EXCEPT ![t] = o]
       /\ this' = [this EXCEPT ![t] = i]
    \/ At(t, i, p) /\ UNCHANGED <<op, this>>

\* The caller's copy goes on to position p, or is complete.
DerefGoes(t, p) ==
    /\ pc' = [pc EXCEPT ![t] = p]
    /\ from' = [from EXCEPT ![t] = IF p = "done" THEN pc[t] ELSE @]
    /\ ret' = [ret EXCEPT ![t] = IF p = "done" THEN "value" ELSE @]
    /\ UNCHANGED m_member_lock

\* T v = *x.data;
ReadData(t, i) ==
    LET k == Len(buf[t]) + 1 IN
    /\ Derefs(t, i, "read", "r_copy")
    /\ \/ Faults(data[i]) /\ Fault(t)
       \/ /\ \E w \in Load(data[i], k) : buf' = [buf EXCEPT ![t] = Append(@, w)]
          /\ DerefGoes(t, IF k = SizeofT THEN "done" ELSE "r_copy")
          /\ overlap' = Overlaps(t, "read")
          /\ UNCHANGED <<conf_vars, alive, m_is_connected, data,
                         m_file_mapping_handle, os_vars, crashed, new_data,
                         last_written, env_failed>>

\* *x.data = v;
StoreData(t, i, v) ==
    LET k == Len(buf[t]) + 1 IN
    /\ Derefs(t, i, "store", "s_copy")
    /\ pc[t] = "s_copy" => v = new_data[t]
    /\ \/ Faults(data[i]) /\ Fault(t)
       \/ /\ Load(data[i], k) # {}
          /\ seg_mem' = Store(data[i], k, v)
          /\ last_written' = Written(t, i, v, k = SizeofT)
          /\ DerefGoes(t, IF k = SizeofT THEN "done" ELSE "s_copy")
          /\ IF k = SizeofT
             THEN /\ buf' = [buf EXCEPT ![t] = <<>>]
                  /\ new_data' = [new_data EXCEPT ![t] = <<>>]
             ELSE /\ buf' = [buf EXCEPT ![t] = Append(@, v[k])]
                  /\ new_data' = [new_data EXCEPT ![t] = v]
          /\ overlap' = Overlaps(t, "store")
          /\ UNCHANGED <<conf_vars, alive, m_is_connected, data,
                         m_file_mapping_handle, seg_exists, seg_size,
                         open_handles, mapped, crashed, env_failed>>

\* ---------------------------------------------------------- specification
Next ==
    \/ \E i \in Instances : Constructor(i)
    \/ \E t \in Threads, i \in Instances, o \in Ops : Call(t, i, o)
    \/ \E t \in Threads : Consume(t)
    \/ \E t \in Threads, i \in Instances : Connect(t, i)
    \/ \E t \in Threads, i \in Instances : ConnectFstat(t, i)
    \/ \E t \in Threads, i \in Instances : ConnectTruncate(t, i)
    \/ \E t \in Threads, i \in Instances : ConnectMap(t, i)
    \/ \E t \in Threads, i \in Instances, o \in Ops : Disconnect(t, i, o)
    \/ \E t \in Threads, i \in Instances : DisconnectClose(t, i)
    \/ \E t \in Threads, i \in Instances : IsConnected(t, i)
    \/ \E t \in Threads, i \in Instances : GetData(t, i)
    \/ \E t \in Threads, i \in Instances, v \in NewData : WriteData(t, i, v)
    \/ \E t \in Threads, i \in Instances : ReadData(t, i)
    \/ \E t \in Threads, i \in Instances, v \in NewData : StoreData(t, i, v)

Spec == Init /\ [][Next]_vars

\* A step of thread t.
Step(t) ==
    \/ Consume(t)
    \/ \E i \in Instances :
        \/ \E o \in Ops : Call(t, i, o) \/ Disconnect(t, i, o)
        \/ Connect(t, i) \/ ConnectFstat(t, i) \/ ConnectTruncate(t, i)
        \/ ConnectMap(t, i) \/ DisconnectClose(t, i) \/ IsConnected(t, i)
        \/ GetData(t, i) \/ ReadData(t, i)
        \/ \E v \in NewData : WriteData(t, i, v) \/ StoreData(t, i, v)

\* Thread t, inside a call or looking at its result, takes its next step.
Continues(t) == pc[t] # "idle" /\ Step(t)

\* Fair scheduling: a thread whose next step is possible again and again
\* takes it.  A thread that waits for a mutex is one of them: the mutex is
\* free each time its holder returns.
Fairness == \A t \in Threads : SF_vars(Continues(t))

\* The workloads in which threads share an instance or destroy it.
FairInit == Init /\ workload # "pair"

FairSpec == FairInit /\ [][Next]_vars /\ Fairness

TypeOK ==
    /\ platform \in Platforms
    /\ workload \in Workloads
    /\ alive \in [Instances -> BOOLEAN]
    /\ m_is_connected \in [Instances -> BOOLEAN]
    /\ data \in [Instances -> Addr \cup {NULL, MAP_FAILED, Wild}]
    /\ m_file_mapping_handle \in [Instances -> Handles \cup {InvalidHandle}]
    /\ m_member_lock \in [Instances -> Threads \cup {"none"}]
    /\ seg_size \in {0, SizeofT}
    /\ seg_mem \in TValues
    /\ open_handles \subseteq Handles
    /\ mapped \subseteq Addr
    /\ pc \in [Threads -> {"idle", "lock", "done", "fault", "c_fstat", "c_trunc",
                           "c_map", "d_close", "g_copy", "w_copy", "r_copy",
                           "s_copy"}]
    /\ op \in [Threads -> Ops \cup DirectOps \cup {"none"}]
    /\ ret \in [Threads -> {"none", "true", "false", "value", "void"}]
    /\ from \in [Threads -> {"idle", "lock", "c_trunc", "c_map", "d_close",
                             "g_copy", "w_copy", "r_copy", "s_copy"}]

\* ------------------------------------------------------------- properties
\* Thread t's call of method o has just returned; the caller has not yet
\* done anything else, so the state is the one the call left.
Returned(t, o) == pc[t] = "done" /\ op[t] = o

\* Instance i is in the state the specification calls Connected.
Connected(i) == m_is_connected[i]

\* Instance i has an open handle and a live mapping.
HoldsResources(i) ==
    /\ m_file_mapping_handle[i] \in open_handles
    /\ data[i] \in mapped

\* Thread t takes this step.
Moved(t) == <<pc[t], buf[t]>>' # <<pc[t], buf[t]>>

\* This step is the one in which thread t takes the mutex of i for method o.
Begins(t, i, o) ==
    /\ pc[t] \in {"idle", "lock"}
    /\ pc'[t] \notin {"idle", "lock"}
    /\ op'[t] = o
    /\ this'[t] = i

\* This step is one of thread t's call of method o on i.
StepOf(t, i, o) == Moved(t) /\ pc[t] # "done" /\ op'[t] = o /\ this'[t] = i

\* This step is the return of thread t's call of method o on i.
Returns(t, i, o) == StepOf(t, i, o) /\ pc'[t] = "done"

\* Thread t is between two steps of the body of a method of i.
InBody(t, i) ==
    /\ this[t] = i
    /\ pc[t] \in {"c_fstat", "c_trunc", "c_map", "d_close", "g_copy", "w_copy"}

\* C1: a get_data() that returns on a Connected instance, and overlapped no
\* write_data(), returns exactly the value of the most recent completed
\* write_data() made through any Connected instance of the name: every
\* word of it, never an older value.
C1_ReadAfterWrite ==
    \A t \in Threads :
        ( /\ Returned(t, "get_data")
          /\ Connected(this[t])
          /\ ~overlap[t]
          /\ last_written # <<>> )
        => buf[t] = last_written

\* get_data() returned a value other than the initial zeroes, which a
\* completed write_data() stored, while both instances are Connected.
C1_Witness ==
    \E t \in Threads :
        /\ Returned(t, "get_data")
        /\ \A i \in Instances : Connected(i)
        /\ ~overlap[t]
        /\ last_written # <<>>
        /\ last_written # Zero
        /\ buf[t] = last_written

\* C2: connect() returns true exactly when it leaves the instance Connected,
\* holding an open handle and a live mapping, and false exactly when it
\* leaves it Disconnected; is_connected() returns the same flag, so it
\* returns true after a connect() that returned true until a disconnect().
C2_ConnectResult ==
    \A t \in Threads :
        /\ Returned(t, "connect") =>
              /\ ret[t] \in {"true", "false"}
              /\ ret[t] = "true" <=> Connected(this[t])
              /\ ret[t] = "true" => HoldsResources(this[t])
        /\ Returned(t, "is_connected") => ret[t] = Bool(Connected(this[t]))

\* A connect() that went through the whole acquisition returned true.
C2_Witness ==
    \E t \in Threads :
        /\ Returned(t, "connect")
        /\ from[t] = "c_map"
        /\ ret[t] = "true"
        /\ Connected(this[t])

\* C3: connect() on an instance that is already Connected returns true in
\* the step that takes the mutex, with no open, sizing or mapping: the
\* handle table, the mappings, the segment and its contents, the stored
\* handle and the stored pointer are unchanged.
C3_ConnectIdempotent ==
    [][ \A t \in Threads, i \in Instances :
            (Begins(t, i, "connect") /\ Connected(i)) =>
                /\ pc'[t] = "done"
                /\ ret'[t] = "true"
                /\ Connected(i)'
                /\ UNCHANGED os_vars
                /\ m_file_mapping_handle'[i] = m_file_mapping_handle[i]
                /\ data'[i] = data[i] ]_vars

\* connect() returned true straight from its entry, on an instance that
\* stays Connected, and the segment still holds the value written before.
C3_Witness ==
    \E t \in Threads :
        /\ Returned(t, "connect")
        /\ from[t] \in {"idle", "lock"}
        /\ ret[t] = "true"
        /\ HoldsResources(this[t])
        /\ last_written # <<>>
        /\ last_written # Zero
        /\ seg_mem = last_written

\* C4: disconnect(), called directly or by the destructor, always returns
\* true and leaves the instance Disconnected; on an instance that is
\* already Disconnected it returns at once with no unmap and no close; the
\* constructor touches no OS resource either.
C4_DisconnectAlways ==
    [][ \A t \in Threads, i \in Instances, o \in {"disconnect", "destroy"} :
            /\ Returns(t, i, o) => ret'[t] = "true" /\ ~Connected(i)'
            /\ StepOf(t, i, o) => ~crashed'
            /\ (Begins(t, i, o) /\ ~Connected(i)) =>
                   /\ pc'[t] = "done"
                   /\ UNCHANGED os_vars
            /\ (~alive[i] /\ alive'[i]) => UNCHANGED os_vars ]_vars

\* An instance was destroyed straight from its entry step while the name's
\* object was never created: nothing was ever opened or mapped.
C4_Witness ==
    \E t \in Threads :
        /\ Returned(t, "destroy")
        /\ from[t] = "idle"
        /\ ret[t] = "true"
        /\ platform = "posix"
        /\ ~seg_exists
        /\ open_handles = {}
        /\ mapped = {}

\* C5: each step of connect() either acquires what it asked the OS for and
\* goes on, or returns false and leaves the instance Disconnected; nothing
\* else reports a failure (no fatal signal); and every connect() on a
\* Disconnected instance starts with the open again, whatever failed before.
C5_ConnectFailure ==
    [][ \A t \in Threads, i \in Instances :
            StepOf(t, i, "connect") =>
                LET failed == pc'[t] = "done" /\ ret'[t] = "false" /\ ~Connected(i)'
                IN  /\ ~crashed'
                    /\ (Begins(t, i, "connect") /\ ~Connected(i)) =>
                           \/ failed /\ m_file_mapping_handle'[i] = InvalidHandle
                           \/ /\ pc'[t] \in {"c_fstat", "c_map"}
                              /\ m_file_mapping_handle'[i] \in open_handles'
                              /\ m_file_mapping_handle'[i] \notin open_handles
                    /\ pc[t] = "c_fstat" => pc'[t] \in {"c_trunc", "c_map"}
                    /\ pc[t] = "c_trunc" =>
                           \/ failed
                           \/ pc'[t] = "c_map" /\ seg_size' = SizeofT
                    /\ pc[t] = "c_map" =>
                           \/ failed /\ data'[i] \notin Addr
                           \/ /\ pc'[t] = "done"
                              /\ ret'[t] = "true"
                              /\ Connected(i)'
                              /\ data'[i] \in mapped' \ mapped ]_vars

\* A connect() whose mapping failed returned false, Disconnected.
C5_Witness ==
    \E t \in Threads :
        /\ Returned(t, "connect")
        /\ from[t] = "c_map"
        /\ ret[t] = "false"
        /\ data[this[t]] = MapFailure
        /\ ~Connected(this[t])

\* The instances that are Connected.
ConnectedInstances == {i \in Instances : alive[i] /\ Connected(i)}

\* C6: whenever no call is inside a method body, the open handles of the
\* process are exactly the stored handles of the Connected instances, one
\* each, and the live mappings exactly their stored pointers, one each: a
\* Disconnected or destroyed instance holds none.
C6_NoLeaks ==
    (\A i \in Instances : Unlocked(i)) =>
        /\ open_handles = {m_file_mapping_handle[i] : i \in ConnectedInstances}
        /\ mapped = {data[i] : i \in ConnectedInstances}
        /\ Cardinality(open_handles) = Cardinality(ConnectedInstances)
        /\ Cardinality(mapped) = Cardinality(ConnectedInstances)

\* C7: whenever no call is inside a method body of a live instance, its
\* stored pointer designates a live mapping exactly when it is Connected,
\* and is null when it is Disconnected.
C7_PointerValidIffConnected ==
    \A i \in Instances :
        (alive[i] /\ Unlocked(i)) =>
            /\ data[i] \in mapped <=> Connected(i)
            /\ ~Connected(i) => data[i] = NULL

\* C8: at most one thread is inside the body of a method of an instance, and
\* it holds the instance's mutex (so no get_data() runs between the words of
\* a write_data() made through the same instance); is_connected() returns
\* true only while the instance holds its handle and its mapping.
C8_Serialized ==
    \A i \in Instances :
        /\ Cardinality({t \in Threads : InBody(t, i)}) <= 1
        /\ \A t \in Threads :
            /\ InBody(t, i) => m_member_lock[i] = t
            /\ (Returned(t, "is_connected") /\ this[t] = i /\ ret[t] = "true") =>
                   HoldsResources(i)

\* One thread is inside disconnect() of an instance, between the unmap and
\* the close, and another thread's call on that instance waits.
C8_Witness ==
    \E t, u \in Threads :
        /\ t # u
        /\ pc[t] = "d_close"
        /\ pc[u] = "lock"
        /\ this[u] = this[t]
        /\ op[u] = "is_connected"

\* C9: an instance is constructed Disconnected, with no OS interaction; its
\* flag goes from false to true only in the return of a connect() that
\* returns true, and from true to false only in a step of disconnect() or
\* of the destructor; no step of is_connected(), get_data() or write_data()
\* changes the flag, the handle or the pointer of any instance.
C9_Transitions ==
    /\ \A i \in Instances : ~Connected(i) /\ ~HoldsResources(i)
    /\ [][ /\ m_is_connected' \in [Instances -> BOOLEAN]
           /\ \A i \in Instances :
                /\ (~alive[i] /\ alive'[i]) => ~Connected(i)' /\ UNCHANGED os_vars
                /\ (~Connected(i) /\ Connected(i)') =>
                       \E t \in Threads :
                           Returns(t, i, "connect") /\ ret'[t] = "true"
                /\ (Connected(i) /\ ~Connected(i)') =>
                       \E t \in Threads :
                           StepOf(t, i, "disconnect") \/ StepOf(t, i, "destroy")
           /\ \A t \in Threads, i \in Instances :
                \A o \in {"is_connected", "get_data", "write_data"} :
                    (StepOf(t, i, o) \/ (Moved(t) /\ pc'[t] = "fault")) =>
                        UNCHANGED <<m_is_connected, m_file_mapping_handle, data>> ]_vars

\* write_data() returned on a Connected instance, which it left Connected
\* with the mapping and the handle it had.
C9_Witness ==
    \E t \in Threads :
        /\ Returned(t, "write_data")
        /\ Connected(this[t])
        /\ HoldsResources(this[t])
        /\ from[t] = "w_copy"

\* C10: as long as the OS has refused nothing, connect() never returns
\* false, however many instances of the name were connected and then
\* disconnected or destroyed before: what they held was released.
C10_Reconnect ==
    \A t \in Threads :
        (Returned(t, "connect") /\ ~env_failed) =>
            /\ ret[t] = "true"
            /\ Connected(this[t])

\* connect() returned true at the address that the other instance, now
\* Disconnected, was mapped at before it released its mapping.
C10_Witness ==
    \E t \in Threads, i \in Instances :
        /\ Returned(t, "connect")
        /\ from[t] = "c_map"
        /\ ret[t] = "true"
        /\ ~env_failed
        /\ i # this[t]
        /\ alive[i]
        /\ ~Connected(i)
        /\ data[i] = data[this[t]]

\* C11: no step removes the named object: once it exists it exists in every
\* later state, and no step of disconnect() or of the destructor changes
\* its size or its contents, so that the last value written is what the
\* next instance to connect finds.
C11_ObjectPersists ==
    [][ /\ seg_exists => seg_exists'
        /\ \A t \in Threads, i \in Instances, o \in {"disconnect", "destroy"} :
            StepOf(t, i, o) =>
                UNCHANGED <<seg_exists, seg_size, seg_mem, last_written>> ]_vars

\* C12: a connect() that finds the object with a nonzero size skips the
\* sizing, no step of connect() changes the size of an object that has
\* one, and every connect() that returns true has mapped sizeof(T) bytes of
\* an object whose size is sizeof(T).
C12_SizeFixed ==
    [][ \A t \in Threads, i \in Instances :
            StepOf(t, i, "connect") =>
                /\ (pc[t] = "c_fstat" /\ seg_size # 0) => pc'[t] = "c_map"
                /\ (seg_size # 0 /\ seg_exists') => seg_size' = seg_size
                /\ (pc'[t] = "done" /\ ret'[t] = "true") =>
                       /\ seg_size' = SizeofT
                       /\ Mapped(data[i])' ]_vars

\* C13: a read through *data of a Connected instance, like get_data() on it,
\* yields the value of the most recent completed write, be it a write_data()
\* or a store through *data of any Connected instance; and when a store
\* through *data of a Connected instance completes, the segment that every
\* Connected instance reads holds the stored value.
C13_DataAliases ==
    \A t \in Threads :
        /\ ( /\ Returned(t, "read") \/ Returned(t, "get_data")
             /\ Connected(this[t])
             /\ ~overlap[t]
             /\ last_written # <<>> )
           => buf[t] = last_written
        /\ (Returned(t, "store") /\ Connected(this[t]) /\ ~overlap[t]) =>
              /\ last_written \in NewData
              /\ seg_mem = last_written
              /\ \A i \in Instances : Connected(i) => Mapped(data[i])

\* A read through *data returned the value, other than the initial zeroes,
\* that the last completed write left, while both instances are Connected.
C13_Witness ==
    \E t \in Threads :
        /\ Returned(t, "read")
        /\ from[t] = "r_copy"
        /\ \A i \in Instances : Connected(i)
        /\ last_written # <<>>
        /\ last_written # Zero
        /\ buf[t] = last_written

\* C14: when connect() has returned false from its mapping step, the handle
\* that the call obtained is closed and the instance is Disconnected.
C14_MapFailureClosesHandle ==
    \A t \in Threads :
        (Returned(t, "connect") /\ from[t] = "c_map" /\ ret[t] = "false") =>
            /\ m_file_mapping_handle[this[t]] \notin open_handles
            /\ ~Connected(this[t])

\* C15: when the OS refuses nothing, every connect() returns true and leaves
\* the object with size sizeof(T), whatever the other thread's connect() on
\* its own instance did between the steps of this one, and the object of
\* every Connected instance has that size.
C15_SizingRace ==
    ~OSMayFail =>
        /\ \A t \in Threads :
            Returned(t, "connect") =>
                /\ ret[t] = "true"
                /\ seg_exists
                /\ seg_size = SizeofT
        /\ \A i \in Instances :
            (Connected(i) /\ Unlocked(i)) => seg_size = SizeofT

\* Both connect() calls found the object with size zero; one has resized
\* it and returned true, the other is about to resize it again.
C15_Witness ==
    \E t, u \in Threads :
        /\ t # u
        /\ Returned(t, "connect")
        /\ from[t] = "c_map"
        /\ ret[t] = "true"
        /\ pc[u] = "c_trunc"
        /\ this[u] # this[t]
        /\ seg_size = SizeofT

\* C16: the resize of a connect() that found the object with size zero, made
\* after another connect() has resized the object, changes neither the
\* size nor a word of the contents, and get_data() on a Connected instance
\* still returns the value of the last completed write.
C16_LateResizeKeepsData ==
    [][ \A t \in Threads, i \in Instances :
            /\ (StepOf(t, i, "connect") /\ pc[t] = "c_trunc" /\ seg_size = SizeofT) =>
                   UNCHANGED <<seg_size, seg_mem, last_written>>
            /\ ( /\ Returns(t, i, "get_data")
                 /\ Connected(i)
                 /\ ~overlap'[t]
                 /\ last_written' # <<>> )
               => buf'[t] = last_written' ]_vars

\* One connect() found the object with size zero and has not resized it
\* yet, while the other thread has connected, resized the object and
\* written a value other than zeroes, which the segment holds.
C16_Witness ==
    \E t, u \in Threads :
        /\ t # u
        /\ pc[u] = "c_trunc"
        /\ Returned(t, "write_data")
        /\ this[t] # this[u]
        /\ Connected(this[t])
        /\ seg_size = SizeofT
        /\ last_written # <<>>
        /\ last_written # Zero
        /\ seg_mem = last_written

\* C17: get_data() and write_data() look at no connection state.  Called on
\* a Disconnected instance they go through the stored pointer as it is:
\* when it designates no mapped T the call can end in a fatal signal, when
\* it designates one (a stale pointer whose address is mapped again) the
\* call reads or writes the segment; and a call that returns gives a value
\* or nothing, never a failure.
C17_UncheckedAccess ==
    /\ \A t \in Threads, i \in Instances :
        (Running /\ Unlocked(i) /\ ~Connected(i)) =>
            /\ MayCall(t, i, "get_data") =>
                   IF Mapped(data[i])
                   THEN ENABLED (GetData(t, i) /\ ~crashed')
                   ELSE ENABLED (GetData(t, i) /\ crashed')
            /\ MayCall(t, i, "write_data") =>
                   \A v \in NewData :
                       IF Mapped(data[i])
                       THEN ENABLED (WriteData(t, i, v) /\ ~crashed')
                       ELSE ENABLED (WriteData(t, i, v) /\ crashed')
    /\ \A t \in Threads :
        /\ Returned(t, "get_data") => ret[t] = "value"
        /\ Returned(t, "write_data") => ret[t] = "void"
        /\ pc[t] = "fault" => ~Mapped(data[this[t]])

\* get_data() on a Disconnected instance, whose pointer still holds the
\* address of the mapping that disconnect() released, ended in a fatal
\* signal.
C17_Witness ==
    \E t \in Threads :
        /\ pc[t] = "fault"
        /\ op[t] = "get_data"
        /\ crashed
        /\ ~Connected(this[t])
        /\ data[this[t]] \in Addr \ mapped

\* C18: the mutex of one instance excludes nothing on another: while a
\* write_data() on one instance is between two words, get_data() and
\* write_data() on another Connected instance of the name can run; and a
\* get_data() on a Connected instance returns a value that no write_data()
\* wrote only when it overlapped a write, or when overlapping writes left
\* such a value in the segment.
C18_NoExclusionAcrossInstances ==
    /\ \A t, u \in Threads, i, j \in Instances :
        ( /\ t # u
          /\ i # j
          /\ Running
          /\ pc[u] = "w_copy"
          /\ this[u] = j
          /\ m_member_lock[i] = "none"
          /\ Mapped(data[i]) ) =>
            /\ MayCall(t, i, "get_data") => ENABLED GetData(t, i)
            /\ MayCall(t, i, "write_data") =>
                   \A v \in NewData : ENABLED WriteData(t, i, v)
    /\ \A t \in Threads :
        (Returned(t, "get_data") /\ Connected(this[t]) /\ buf[t] \notin NewData) =>
            overlap[t] \/ last_written = <<>>

\* get_data() on a Connected instance overlapped a write_data() on the
\* other instance and returned a value made of words of two values.
C18_Witness ==
    \E t \in Threads :
        /\ Returned(t, "get_data")
        /\ \A i \in Instances : Connected(i)
        /\ overlap[t]
        /\ buf[t] \in TValues \ NewData
        /\ workload = "pair"

C20_PlatformsAgree ==
    \A t \in Threads :
        pc[t] = "c_map" /\ op[t] = "connect" /\ MapFailure \in MapResults =>
            HandlesAfterMapFailureOn("windows", this[t])
                = HandlesAfterMapFailureOn("posix", this[t])

====
